---- MODULE Spec2Model ----
(***************************************************************************)
(* Model of the browser client of the video-analysis server                *)
(* (class VideoAnalysisApp): the list loaders with their retry counter,    *)
(* the guarded upload and processing submissions, and the completion       *)
(* poller with its tick interval and its timeout timer.                    *)
(*                                                                         *)
(* Every action is one run of a handler between two suspension points of   *)
(* the event loop: a call up to its first await, or the continuation that  *)
(* runs when a response or a timer arrives.                                *)
(*                                                                         *)
(* Progress is a float in the source (Math.random() * 8 + 2 is a double    *)
(* from 2 up to and including 10, the sum rounding to 10 for the largest   *)
(* draws); the model keeps it in tenths of a percent (Scale), so an        *)
(* increment is one of 20..100, the ceiling 90 is 900, and "differs by     *)
(* less than 1" is a difference below 10.                                  *)
(***************************************************************************)
EXTENDS Integers, Sequences, FiniteSets, Bags, TLC

(***************************************************************************)
(* Program constants                                                       *)
(***************************************************************************)
maxRetries == 3

RetryBaseDelay == 1000

PollIntervalMs == 800

PollTimeoutMs == 600000

ProgressCap == 90

\* the estimate, the bar and their thresholds are kept in tenths of a percent
Scale == 10

Pct(n) == n * Scale

MinIncrement == 2

IncrementSpan == 8

allowedTypes == {"video/mp4", "video/avi", "video/mov", "video/mkv", "video/webm"}

Resources == {"cameras", "videos", "uploaded-videos"}

(***************************************************************************)
(* Bounds of the model                                                     *)
(***************************************************************************)
\* events that call the loaders again or notify: firings of the 30-second
\* refresh timer, window events (online, offline, error) and calls of
\* addCamera, deleteCamera and deleteUploadedVideo, together
MaxEvents == 1

\* jobs handed to startProgressPolling
MaxJobs == 2

\* firings of the tick intervals (of all jobs and of testProgressBar
\* together) when time is not tracked
MaxTicks == 1

\* calls of testProgressBar
MaxTests == 1

\* completion probes of one job that get their response when time is tracked
\* (the others stay unanswered)
MaxAnswers == 11

\* copies of one notification produced by calls the user can repeat at will
MaxNotes == 2

\* accepted upload requests
MaxUploads == 1

\* calls of previewCamera
MaxPreviews == 2

\* updateCameraPreviews calls that send their snapshot requests
MaxCycles == 2

\* uses of the controls: clicks on the refresh, snapshot and recording buttons
\* of the modal and on the snapshot buttons of the panel, together
MaxControls == 1

\* calls of playVideo, playUploadedVideo and playProcessedVideo together
MaxPlays == 2

(***************************************************************************)
(* Inputs                                                                  *)
(***************************************************************************)
\* the file chosen in #videoFile: none, or a file with its declared type
NoFile == "none"

FileTypes == allowedTypes \cup {"text/plain", ""}

\* descriptors the backend returns for an upload (video_info.filename)
NoVideo == "null"

VideoNames == {"a.mp4", "b.mp4"}

\* data.processed_filename of an accepted submission
ProcessedNames == {"processed_a.mp4", "processed_b.mp4"}

\* the cameras of the list, by camera_id
Cameras == {"cam1", "cam2"}

NoCamera == "no camera"

\* the lists GET /api/cameras answers with (none configured, one, two)
CameraLists == {<<>>, <<"cam1">>, <<"cam1", "cam2">>}

\* the source of the video player: empty, or the route and the file played
NoSource == [route |-> "", file |-> ""]

\* how a request fails: an answer without success, or an exception
FailureKinds == {"status", "exception"}

\* the management operations: each sends one request and reloads a list when
\* the backend reports success
ManageKinds == {"addCamera", "deleteCamera", "deleteUploadedVideo"}

\* the pages the script runs on: the path and the elements present
\* (cameraPreviewModal: the modal with #cameraStream, #streamStatus, #cameraInfo
\* and its control buttons; videoModal: the modal with #videoPlayer)
AllElements ==
    {"camerasList", "videosGrid", "uploadedVideosGrid", "enableDepersonalization",
     "processingProgressRow", "progressElements", "processedVideo",
     "cameraPreviewModal", "cameraPreview", "cameraForm", "videoModal"}

Pages ==
    { [pathname |-> "/", elements |-> AllElements],
      [pathname |-> "/",
       elements |-> AllElements \ {"videosGrid", "enableDepersonalization",
                                    "cameraPreviewModal"}],
      [pathname |-> "/",
       elements |-> AllElements \ {"videosGrid", "processedVideo", "cameraPreviewModal",
                                    "cameraPreview", "cameraForm", "videoModal"}],
      [pathname |-> "/library",
       elements |-> AllElements \ {"camerasList", "progressElements", "cameraPreview",
                                    "cameraForm"}] }

VARIABLES
    page,            \* the page the script was loaded on
    player,          \* #videoPlayer in #videoModal: source, modal shown, error listeners
    retryCount,      \* this.retryCount
    inflight,        \* per resource: list fetches awaiting their response
    timers,          \* bag of armed retry timers [resource, delay]
    notes,           \* bag of the notifications shown so far
    hist,            \* per resource: history of its fetches (observer)
    events,          \* refresh timer firings, window events and management calls so far
    manage,          \* per operation: camera and video management requests awaiting
    isUploading,     \* this.isUploading
    isProcessing,    \* this.isProcessing
    currentVideo,    \* this.currentVideo (filename of the descriptor)
    upload,          \* the handleVideoUpload invocation awaiting a response
    legacy,          \* uploadVideo requests awaiting their response
    process,         \* the processVideo invocation awaiting its response
    submissions,     \* POST /api/process-video requests: sent so far, awaiting a response
    jobs,            \* the jobs handed to startProgressPolling, oldest first
    dom,             \* the shared elements the handlers write
    now,             \* the clock, in ms since the first job started
    tests,           \* the intervals armed by testProgressBar, oldest first
    previews,        \* calls of previewCamera so far
    metadata,        \* per camera: GET /api/stream/<id> awaiting their response
    modal,           \* the elements of the preview modal
    snapshots,       \* per camera: fallback snapshot requests sent, and awaiting
    streamErrors,    \* per camera: error events of its stream so far (observer)
    captures,        \* per camera: captureSnapshot requests awaiting their response
    recording,       \* #toggleRecording shows "Stop Recording"
    clicks,          \* uses of the refresh, snapshot and recording buttons so far
    cameras,         \* this.cameras (the camera_ids, in list order)
    cycles,          \* the updateCameraPreviews calls that got past their checks
    panel            \* the content of #cameraPreview

loaderVars == <<retryCount, inflight, timers, hist, events, manage, cameras>>

jobVars == <<isUploading, isProcessing, currentVideo, upload, legacy, process, submissions, jobs, dom, now,
             tests>>

controlVars == <<captures, recording, clicks>>

previewVars == <<previews, metadata, modal, snapshots, streamErrors, controlVars>>

panelVars == <<cycles, panel>>

vars == <<page, player, notes, loaderVars, jobVars, previewVars, panelVars>>

(***************************************************************************)
(* Notifications: showNotification(message, type)                          *)
(***************************************************************************)
Note(type, text, arg) == [type |-> type, text |-> text, arg |-> arg]

showNotification(bag, type, text, arg) == bag (+) SetToBag({Note(type, text, arg)})

Shown(type, text, arg) == CopiesIn(Note(type, text, arg), notes)

Has(el) == el \in page.elements

(***************************************************************************)
(* Resource loading: loadCameras, loadVideos, loadUploadedVideos           *)
(***************************************************************************)
\* does a call of the loader of r issue its fetch on this page
Fetches(r) ==
    CASE r = "cameras" -> page.pathname # "/library"
      [] r = "videos" -> TRUE
      [] r = "uploaded-videos" -> page.pathname # "/library"

\* inflight after the loaders of the resources in rs were called
Called(rs) ==
    [r \in Resources |-> inflight[r] + (IF r \in rs /\ Fetches(r) THEN 1 ELSE 0)]

\* inflight after a fetch of r got its response
Settled(r) == [inflight EXCEPT ![r] = @ - 1]

FinalFailure(r) == Note("error", "Failed to load after attempts", r)

handleApiErrorNoisy(resource) ==
    IF retryCount < maxRetries
    THEN /\ retryCount' = retryCount + 1
         /\ timers' = timers (+) SetToBag({[resource |-> resource,
                                           delay |-> RetryBaseDelay * (retryCount + 1)]})
         /\ notes' = notes (+) SetToBag({FinalFailure(resource)})
    ELSE /\ notes' = notes (+) SetToBag({FinalFailure(resource)})
         /\ retryCount' = 0
         /\ timers' = timers

handleApiErrorOffByOne(resource) ==
    IF retryCount <= maxRetries
    THEN /\ retryCount' = retryCount + 1
         /\ timers' = timers (+) SetToBag({[resource |-> resource,
                                           delay |-> RetryBaseDelay * (retryCount + 1)]})
         /\ notes' = notes
    ELSE /\ notes' = notes (+) SetToBag({FinalFailure(resource)})
         /\ retryCount' = 0
         /\ timers' = timers

handleApiError(resource) ==
    IF retryCount < maxRetries
    THEN /\ retryCount' = retryCount + 1
         /\ timers' = timers (+) SetToBag({[resource |-> resource,
                                           delay |-> RetryBaseDelay * (retryCount + 1)]})
         /\ notes' = notes
    ELSE /\ notes' = notes (+) SetToBag({FinalFailure(resource)})
         /\ retryCount' = 0
         /\ timers' = timers

\* observer: a fetch of r succeeded
HistOk(r) ==
    IF r \in DOMAIN hist
    THEN [hist EXCEPT ![r] = [fails |-> 0, noted |-> FALSE, retries |-> 0]]
    ELSE hist

Upto(n, cap) == IF n < cap THEN n + 1 ELSE cap

\* observer: a fetch of r failed, with the counter at rc when it did.
\* fails: consecutive failures of r (counted up to maxRetries); noted: a final
\* failure of r was reported since its last success; retries: retries
\* scheduled for r since its last success or final failure.
HistFail(r, rc) ==
    IF r \in DOMAIN hist
    THEN [hist EXCEPT ![r] =
            IF rc < maxRetries
            THEN [fails |-> Upto(@.fails, maxRetries), noted |-> @.noted,
                  retries |-> Upto(@.retries, maxRetries + 1)]
            ELSE [fails |-> Upto(@.fails, maxRetries), noted |-> TRUE, retries |-> 0]]
    ELSE hist

\* the response of a list fetch arrived with a success status
FetchOk(r) ==
    /\ inflight[r] > 0
    /\ inflight' = Settled(r)
    /\ retryCount' = IF r = "cameras" THEN 0 ELSE retryCount
    /\ IF r = "cameras"
       THEN \E list \in CameraLists : cameras' = list
       ELSE cameras' = cameras
    /\ hist' = HistOk(r)
    /\ UNCHANGED <<page, player, previewVars, panelVars, notes, timers, events, manage, jobVars>>

\* a list fetch failed: network error or non-success status
FetchFail(r) ==
    /\ inflight[r] > 0
    /\ inflight' = Settled(r)
    /\ handleApiError(r)
    /\ hist' = HistFail(r, retryCount)
    /\ UNCHANGED <<page, player, previewVars, panelVars, cameras, events, manage, jobVars>>

\* a retry timer armed by handleApiError fires
RetryFire(t) ==
    /\ t \in BagToSet(timers)
    /\ timers' = timers (-) SetToBag({t})
    /\ inflight' =
         IF t.resource = "videos" /\ ~Has("videosGrid")
         THEN inflight
         ELSE Called({t.resource})
    /\ UNCHANGED <<page, player, previewVars, panelVars, cameras, notes, retryCount, hist, events, manage, jobVars>>

\* the 30-second timer of startAutoRefresh fires
AutoRefresh ==
    /\ events < MaxEvents
    /\ events' = events + 1
    /\ inflight' = Called({"cameras"} \cup (IF Has("videosGrid") THEN {"videos"} ELSE {}))
    /\ UNCHANGED <<page, player, previewVars, panelVars, cameras, notes, retryCount, timers, hist, manage, jobVars>>

(***************************************************************************)
(* Window events and the management of cameras and uploaded videos         *)
(***************************************************************************)
\* the lists the online listener reloads on this page
OnlineLoads ==
    IF page.pathname = "/library"
    THEN {}
    ELSE (IF Has("camerasList") THEN {"cameras"} ELSE {})
         \cup (IF Has("videosGrid") THEN {"videos"} ELSE {})
         \cup (IF Has("uploadedVideosGrid") THEN {"uploaded-videos"} ELSE {})

\* the window goes online
Online ==
    /\ events < MaxEvents
    /\ events' = events + 1
    /\ notes' = showNotification(notes, "success", "Network connection restored", "")
    /\ inflight' = Called(OnlineLoads)
    /\ UNCHANGED <<page, player, previewVars, panelVars, cameras, retryCount, timers, hist, manage, jobVars>>

\* the window goes offline
Offline ==
    /\ events < MaxEvents
    /\ events' = events + 1
    /\ notes' = showNotification(notes, "warning", "Network connection lost", "")
    /\ UNCHANGED <<page, player, previewVars, panelVars, cameras, retryCount, inflight, timers, hist, manage,
                   jobVars>>

\* an uncaught error reaches the window
WindowError ==
    /\ events < MaxEvents
    /\ events' = events + 1
    /\ notes' = showNotification(notes, "error", "An unexpected error occurred", "")
    /\ UNCHANGED <<page, player, previewVars, panelVars, cameras, retryCount, inflight, timers, hist, manage,
                   jobVars>>

\* the request of a management operation goes out
Requested(kind) ==
    /\ events < MaxEvents
    /\ events' = events + 1
    /\ manage' = [manage EXCEPT ![kind] = @ + 1]
    /\ UNCHANGED <<page, player, previewVars, panelVars, cameras, notes, retryCount, inflight, timers, hist,
                   jobVars>>

\* the camera form is submitted (the listener and the fields it reads exist
\* only with the form)
addCamera ==
    /\ Has("cameraForm")
    /\ Requested("addCamera")

\* the delete button of a camera, the dialog confirmed
deleteCamera(cameraId) ==
    /\ cameraId \in Cameras
    /\ Requested("deleteCamera")

\* the delete button of an uploaded video, the dialog confirmed
deleteUploadedVideo(videoId) ==
    /\ videoId \in VideoNames
    /\ Requested("deleteUploadedVideo")

ManageSuccessText(kind) ==
    CASE kind = "addCamera" -> "Camera added successfully!"
      [] kind = "deleteCamera" -> "Camera deleted successfully!"
      [] kind = "deleteUploadedVideo" -> "Video deleted successfully!"

\* the message for an answer without success, or for a request that threw
ManageFailureText(kind, how) ==
    CASE kind = "addCamera" ->
            (IF how = "status" THEN "Failed to add camera" ELSE "Error adding camera")
      [] kind = "deleteCamera" ->
            (IF how = "status" THEN "Failed to delete camera" ELSE "Error deleting camera")
      [] kind = "deleteUploadedVideo" ->
            (IF how = "status" THEN "Failed to delete video" ELSE "Error deleting video")

\* the list a successful management operation loads again
ManageReloads(kind) ==
    IF kind = "deleteUploadedVideo" THEN "uploaded-videos" ELSE "cameras"

\* the backend answered a management request with success
ManageOk(kind) ==
    /\ manage[kind] > 0
    /\ manage' = [manage EXCEPT ![kind] = @ - 1]
    /\ notes' = showNotification(notes, "success", ManageSuccessText(kind), "")
    /\ inflight' = Called({ManageReloads(kind)})
    /\ UNCHANGED <<page, player, previewVars, panelVars, cameras, retryCount, timers, hist, events, jobVars>>

\* the backend answered without success, or the request threw
ManageFailed(kind, how) ==
    /\ manage[kind] > 0
    /\ manage' = [manage EXCEPT ![kind] = @ - 1]
    /\ notes' = showNotification(notes, "error", ManageFailureText(kind, how), "")
    /\ UNCHANGED <<page, player, previewVars, panelVars, cameras, retryCount, inflight, timers, hist, events,
                   jobVars>>

(***************************************************************************)
(* The video player: playVideo, playUploadedVideo, playProcessedVideo      *)
(***************************************************************************)
\* the player is pointed at a file and its modal is shown; listener is the
\* sequence of the error listeners the call adds (without #videoPlayer the
\* call throws at its first write)
Played(route, filename, listener) ==
    /\ Has("videoModal")
    /\ player.plays < MaxPlays
    /\ player' = [src |-> [route |-> route, file |-> filename], shown |-> TRUE,
                  listeners |-> player.listeners \o listener,
                  plays |-> player.plays + 1]
    /\ UNCHANGED <<page, notes, loaderVars, jobVars, previewVars, panelVars>>

playVideo(filename) == Played("/api/videos/", filename, <<>>)

playUploadedVideo(filename) ==
    Played("/api/uploaded-video/", filename, <<"Error loading video. Please try again.">>)

playProcessedVideo(filename) ==
    Played("/api/processed-video/", filename,
           <<"Error loading processed video. Please try again.">>)

RECURSIVE NotifyAll(_, _)
\* the notifications after every listener of the sequence ran
NotifyAll(bag, listeners) ==
    IF listeners = <<>>
    THEN bag
    ELSE NotifyAll(showNotification(bag, "error", Head(listeners), ""), Tail(listeners))

\* an error event at the player, whatever its source is by then (the
\* listeners are never removed): every listener added so far runs
PlayerError ==
    /\ player.listeners # <<>>
    /\ \A k \in DOMAIN player.listeners :
          Shown("error", player.listeners[k], "") < MaxNotes
    /\ notes' = NotifyAll(notes, player.listeners)
    /\ UNCHANGED <<page, player, loaderVars, jobVars, previewVars, panelVars>>

\* the modal was closed (hidden.bs.modal), by its own controls or after the
\* Escape listener hid it: the player is stopped and emptied
PlayerHidden ==
    /\ Has("videoModal")
    /\ player.shown \/ player.src # NoSource
    /\ player' = [player EXCEPT !.src = NoSource, !.shown = FALSE]
    /\ UNCHANGED <<page, notes, loaderVars, jobVars, previewVars, panelVars>>

(***************************************************************************)
(* Upload: handleVideoUpload (guarded) and uploadVideo                     *)
(***************************************************************************)
UploadFinallyKeepsButton ==
    /\ isUploading' = FALSE
    /\ dom' = dom
    /\ upload' = "idle"

\* the finally block of handleVideoUpload
UploadFinally ==
    /\ isUploading' = FALSE
    /\ dom' = [dom EXCEPT !.uploadBtnDisabled = FALSE]
    /\ upload' = "idle"

handleVideoUploadUnguarded(file) ==
    IF file = NoFile
    THEN /\ Shown("warning", "Please select a video file", "") < MaxNotes
         /\ notes' = showNotification(notes, "warning", "Please select a video file", "")
         /\ isUploading' = FALSE
         /\ UNCHANGED <<page, player, tests, previewVars, panelVars, loaderVars, isProcessing, currentVideo, upload, legacy,
                        process, submissions, jobs, dom, now>>
    ELSE IF file \notin allowedTypes
    THEN /\ notes' = showNotification(notes, "warning", "Please select a valid video file", "")
         /\ isUploading' = TRUE
         /\ UNCHANGED <<page, player, tests, previewVars, panelVars, loaderVars, isProcessing, currentVideo, upload, legacy,
                        process, submissions, jobs, dom, now>>
    ELSE /\ Shown("info", "Uploading video...", "") < MaxUploads
         /\ notes' = showNotification(notes, "info", "Uploading video...", "")
         /\ isUploading' = TRUE
         /\ dom' = [dom EXCEPT !.uploadBtnDisabled = TRUE]
         /\ upload' = "awaitUpload"
         /\ UNCHANGED <<page, player, tests, previewVars, panelVars, loaderVars, isProcessing, currentVideo, legacy, process, submissions,
                        jobs, now>>

\* handleVideoUpload() up to its first await; file is the chosen file
handleVideoUpload(file) ==
    IF isUploading
    THEN UNCHANGED vars
    ELSE IF file = NoFile
    THEN /\ Shown("warning", "Please select a video file", "") < MaxNotes
         /\ notes' = showNotification(notes, "warning", "Please select a video file", "")
         /\ isUploading' = FALSE
         /\ UNCHANGED <<page, player, tests, previewVars, panelVars, loaderVars, isProcessing, currentVideo, upload, legacy,
                        process, submissions, jobs, dom, now>>
    ELSE IF file \notin allowedTypes
    THEN /\ notes' = showNotification(notes, "warning", "Please select a valid video file", "")
         /\ isUploading' = TRUE
         /\ UNCHANGED <<page, player, tests, previewVars, panelVars, loaderVars, isProcessing, currentVideo, upload, legacy,
                        process, submissions, jobs, dom, now>>
    ELSE /\ Shown("info", "Uploading video...", "") < MaxUploads
         /\ notes' = showNotification(notes, "info", "Uploading video...", "")
         /\ isUploading' = TRUE
         /\ dom' = [dom EXCEPT !.uploadBtnDisabled = TRUE]
         /\ upload' = "awaitUpload"
         /\ UNCHANGED <<page, player, tests, previewVars, panelVars, loaderVars, isProcessing, currentVideo, legacy, process, submissions,
                        jobs, now>>

\* the upload request failed: fetch threw, or the status was not a success
UploadError ==
    /\ upload = "awaitUpload"
    /\ notes' = showNotification(notes, "error", "Upload failed", "exception")
    /\ UploadFinally
    /\ UNCHANGED <<page, player, tests, previewVars, panelVars, loaderVars, isProcessing, currentVideo, legacy, process, submissions, jobs, now>>

UploadRejectedKeepsFlag(err) ==
    /\ upload = "awaitUpload"
    /\ notes' = showNotification(notes, "error", "Upload failed", err)
    /\ dom' = [dom EXCEPT !.uploadBtnDisabled = FALSE]
    /\ upload' = "idle"
    /\ UNCHANGED <<page, player, tests, previewVars, panelVars, loaderVars, isUploading, isProcessing, currentVideo,
                   legacy, process, submissions, jobs, now>>

\* the upload request was answered with result.success false
UploadRejected(err) ==
    /\ upload = "awaitUpload"
    /\ notes' = showNotification(notes, "error", "Upload failed", err)
    /\ UploadFinally
    /\ UNCHANGED <<page, player, tests, previewVars, panelVars, loaderVars, isProcessing, currentVideo, legacy, process, submissions, jobs, now>>

\* the upload request succeeded; info is result.video_info (NoVideo: absent).
\* The handler then awaits loadUploadedVideos().
UploadSuccess(info) ==
    /\ upload = "awaitUpload"
    /\ notes' = showNotification(notes, "success", "Video uploaded successfully!", "")
    /\ currentVideo' = IF info # NoVideo THEN info ELSE currentVideo
    /\ IF Fetches("uploaded-videos")
       THEN /\ inflight' = Called({"uploaded-videos"})
            /\ upload' = "awaitReload"
            /\ UNCHANGED <<isUploading, dom>>
       ELSE /\ UploadFinally
            /\ UNCHANGED inflight
    /\ UNCHANGED <<page, player, tests, previewVars, panelVars, cameras, retryCount, timers, hist, events, manage, isProcessing, legacy,
                   process, submissions, jobs, now>>

\* the loadUploadedVideos() awaited by handleVideoUpload settled
UploadReloaded(ok) ==
    /\ upload = "awaitReload"
    /\ inflight["uploaded-videos"] > 0
    /\ inflight' = Settled("uploaded-videos")
    /\ IF ok
       THEN /\ hist' = HistOk("uploaded-videos")
            /\ UNCHANGED <<retryCount, timers, notes>>
       ELSE /\ handleApiError("uploaded-videos")
            /\ hist' = HistFail("uploaded-videos", retryCount)
    /\ UploadFinally
    /\ UNCHANGED <<page, player, tests, previewVars, panelVars, cameras, events, manage, isProcessing, currentVideo, legacy, process, submissions, jobs, now>>

\* uploadVideo() up to its await: the second submit listener of the form
uploadVideo(file) ==
    IF file = NoFile
    THEN /\ Shown("error", "Please select a video file", "") < MaxNotes
         /\ notes' = showNotification(notes, "error", "Please select a video file", "")
         /\ UNCHANGED <<page, player, previewVars, panelVars, loaderVars, jobVars>>
    ELSE /\ legacy.sent < MaxUploads
         /\ legacy' = [sent |-> legacy.sent + 1, pending |-> legacy.pending + 1]
         /\ UNCHANGED <<page, player, tests, previewVars, panelVars, notes, loaderVars, isUploading, isProcessing, currentVideo,
                        upload, process, submissions, jobs, dom, now>>

\* the response of uploadVideo's request: a success status with the
\* descriptor data (showVideoInfo stores it)
LegacyUploaded(data) ==
    /\ legacy.pending > 0
    /\ legacy' = [legacy EXCEPT !.pending = @ - 1]
    /\ currentVideo' = data
    /\ notes' = showNotification(notes, "success", "Video uploaded successfully!", "")
    /\ UNCHANGED <<page, player, tests, previewVars, panelVars, loaderVars, isUploading, isProcessing, upload, process, submissions, jobs,
                   dom, now>>

\* uploadVideo's request failed: an error status (with or without data.error)
\* or an exception
LegacyFailed(err) ==
    /\ legacy.pending > 0
    /\ legacy' = [legacy EXCEPT !.pending = @ - 1]
    /\ notes' = showNotification(notes, "error", "Upload failed", err)
    /\ UNCHANGED <<page, player, tests, previewVars, panelVars, loaderVars, isUploading, isProcessing, currentVideo, upload,
                   process, submissions, jobs, dom, now>>

(***************************************************************************)
(* Processing: processVideo and startProgressPolling                       *)
(***************************************************************************)
\* the job created by startProgressPolling(processedFilename, ...): its two
\* closure variables, its two timers and its outstanding probes
startProgressPolling(processedFilename) ==
    [file |-> processedFilename, progress |-> 0, lastProgress |-> 0,
     interval |-> TRUE, tickDue |-> now + PollIntervalMs,
     timeout |-> TRUE, timeoutDue |-> now + PollTimeoutMs,
     ticks |-> 0, probes |-> 0, completed |-> 0, timedOut |-> FALSE]

\* the finally block of processVideo
ProcessFinally ==
    /\ isProcessing' = FALSE
    /\ process' = "idle"
    /\ submissions' = [submissions EXCEPT !.pending = @ - 1]

processVideoUnguarded ==
    IF currentVideo = NoVideo
    THEN /\ Shown("error", "Please upload a video first", "") < MaxNotes
         /\ notes' = showNotification(notes, "error", "Please upload a video first", "")
         /\ isProcessing' = FALSE
         /\ UNCHANGED <<page, player, tests, previewVars, panelVars, loaderVars, isUploading, currentVideo, upload, legacy,
                        process, submissions, jobs, dom, now>>
    ELSE IF ~Has("enableDepersonalization")
    THEN /\ isProcessing' = TRUE
         /\ UNCHANGED <<page, player, tests, previewVars, panelVars, notes, loaderVars, isUploading, currentVideo, upload,
                        legacy, process, submissions, jobs, dom, now>>
    ELSE IF ~Has("progressElements")
    THEN /\ notes' = showNotification(notes, "warning", "Progress display not available", "")
         /\ isProcessing' = TRUE
         /\ UNCHANGED <<page, player, tests, previewVars, panelVars, loaderVars, isUploading, currentVideo, upload, legacy,
                        process, submissions, jobs, dom, now>>
    ELSE /\ submissions.sent < MaxJobs
         /\ dom' = [dom EXCEPT !.bar = 0, !.statusText = "Starting video processing...",
                               !.processBtnDisabled = TRUE]
         /\ isProcessing' = TRUE
         /\ process' = "awaitSubmit"
         /\ submissions' = [sent |-> submissions.sent + 1,
                            pending |-> submissions.pending + 1]
         /\ UNCHANGED <<page, player, tests, previewVars, panelVars, notes, loaderVars, isUploading, currentVideo, upload,
                        legacy, jobs, now>>

processVideoKeepsFlag ==
    IF isProcessing
    THEN UNCHANGED vars
    ELSE IF currentVideo = NoVideo
    THEN /\ Shown("error", "Please upload a video first", "") < MaxNotes
         /\ notes' = showNotification(notes, "error", "Please upload a video first", "")
         /\ isProcessing' = TRUE
         /\ UNCHANGED <<page, player, tests, previewVars, panelVars, loaderVars, isUploading, currentVideo, upload, legacy,
                        process, submissions, jobs, dom, now>>
    ELSE IF ~Has("enableDepersonalization")
    THEN /\ isProcessing' = TRUE
         /\ UNCHANGED <<page, player, tests, previewVars, panelVars, notes, loaderVars, isUploading, currentVideo, upload,
                        legacy, process, submissions, jobs, dom, now>>
    ELSE IF ~Has("progressElements")
    THEN /\ notes' = showNotification(notes, "warning", "Progress display not available", "")
         /\ isProcessing' = TRUE
         /\ UNCHANGED <<page, player, tests, previewVars, panelVars, loaderVars, isUploading, currentVideo, upload, legacy,
                        process, submissions, jobs, dom, now>>
    ELSE /\ submissions.sent < MaxJobs
         /\ dom' = [dom EXCEPT !.bar = 0, !.statusText = "Starting video processing...",
                               !.processBtnDisabled = TRUE]
         /\ isProcessing' = TRUE
         /\ process' = "awaitSubmit"
         /\ submissions' = [sent |-> submissions.sent + 1,
                            pending |-> submissions.pending + 1]
         /\ UNCHANGED <<page, player, tests, previewVars, panelVars, notes, loaderVars, isUploading, currentVideo, upload,
                        legacy, jobs, now>>

\* processVideo() up to its await
processVideo ==
    IF isProcessing
    THEN UNCHANGED vars
    ELSE IF currentVideo = NoVideo
    THEN /\ Shown("error", "Please upload a video first", "") < MaxNotes
         /\ notes' = showNotification(notes, "error", "Please upload a video first", "")
         /\ isProcessing' = FALSE
         /\ UNCHANGED <<page, player, tests, previewVars, panelVars, loaderVars, isUploading, currentVideo, upload, legacy,
                        process, submissions, jobs, dom, now>>
    ELSE IF ~Has("enableDepersonalization")
    THEN /\ isProcessing' = TRUE
         /\ UNCHANGED <<page, player, tests, previewVars, panelVars, notes, loaderVars, isUploading, currentVideo, upload,
                        legacy, process, submissions, jobs, dom, now>>
    ELSE IF ~Has("progressElements")
    THEN /\ notes' = showNotification(notes, "warning", "Progress display not available", "")
         /\ isProcessing' = TRUE
         /\ UNCHANGED <<page, player, tests, previewVars, panelVars, loaderVars, isUploading, currentVideo, upload, legacy,
                        process, submissions, jobs, dom, now>>
    ELSE /\ submissions.sent < MaxJobs
         /\ dom' = [dom EXCEPT !.bar = 0, !.statusText = "Starting video processing...",
                               !.processBtnDisabled = TRUE]
         /\ isProcessing' = TRUE
         /\ process' = "awaitSubmit"
         /\ submissions' = [sent |-> submissions.sent + 1,
                            pending |-> submissions.pending + 1]
         /\ UNCHANGED <<page, player, tests, previewVars, panelVars, notes, loaderVars, isUploading, currentVideo, upload,
                        legacy, jobs, now>>

\* the submission was accepted: data.processed_filename is handed to the poller
ProcessAccepted(processedFilename) ==
    /\ process = "awaitSubmit"
    /\ jobs' = Append(jobs, startProgressPolling(processedFilename))
    /\ ProcessFinally
    /\ dom' = [dom EXCEPT !.processBtnDisabled = FALSE]
    /\ UNCHANGED <<page, player, tests, previewVars, panelVars, notes, loaderVars, isUploading, currentVideo, upload, legacy, now>>

\* the submission failed: an error status whose body carries the message err
\* ("": none), or an exception of fetch. The message goes into the Error that
\* is thrown and from there to the console only.
ProcessFailed(err) ==
    /\ process = "awaitSubmit"
    /\ notes' = showNotification(notes, "error", "Processing failed", "")
    /\ ProcessFinally
    /\ dom' = [dom EXCEPT !.statusText = "Processing failed", !.processBtnDisabled = FALSE]
    /\ UNCHANGED <<page, player, tests, previewVars, panelVars, loaderVars, isUploading, currentVideo, upload, legacy, jobs, now>>

(***************************************************************************)
(* The completion poller: the callbacks armed by startProgressPolling      *)
(***************************************************************************)
Job(j) == jobs[j]

Min(a, b) == IF a < b THEN a ELSE b

Abs(a) == IF a < 0 THEN 0 - a ELSE a

AdvanceUnclamped(progress, inc) ==
    IF progress < Pct(ProgressCap) THEN progress + inc ELSE progress

\* the estimator: progress after one tick that drew the increment inc
Advance(progress, inc) ==
    IF progress < Pct(ProgressCap) THEN Min(progress + inc, Pct(ProgressCap)) ELSE progress

\* the status text a tick writes for the progress it reached
StatusOf(progress, old) ==
    IF progress < Pct(20) THEN "Initializing video processing..."
    ELSE IF progress < Pct(40) THEN "Analyzing video content and detecting faces..."
    ELSE IF progress < Pct(60) THEN "Processing license plates and objects..."
    ELSE IF progress < Pct(80) THEN "Applying privacy protection and blurring..."
    ELSE IF progress < Pct(90) THEN "Finalizing video encoding..."
    ELSE old

\* the interval callback of job j up to its await: advance the estimate,
\* show it, and send the completion probe
Tick(j, inc) ==
    /\ Job(j).interval
    /\ LET p == Advance(Job(j).progress, inc) IN
       /\ jobs' = [jobs EXCEPT ![j] = [@ EXCEPT !.progress = p,
                                                !.ticks = @ + 1,
                                                !.probes = @ + 1,
                                                !.tickDue = @ + PollIntervalMs]]
       /\ dom' = [dom EXCEPT !.bar = p, !.statusText = StatusOf(p, @)]
    /\ UNCHANGED <<page, player, tests, previewVars, panelVars, notes, loaderVars, isUploading, isProcessing, currentVideo,
                   upload, legacy, process, submissions, now>>

ProbeOkKeepsEstimate(j) ==
    /\ Job(j).probes > 0
    /\ jobs' = [jobs EXCEPT ![j] = [@ EXCEPT !.probes = @ - 1,
                                             !.interval = FALSE,
                                             !.completed = @ + 1]]
    /\ dom' = [dom EXCEPT !.statusText = "Processing completed successfully!",
                          !.processedVideo = IF Has("processedVideo") THEN Job(j).file ELSE @]
    /\ notes' = showNotification(notes, "success", "Video processed successfully!", "")
    /\ UNCHANGED <<page, player, tests, previewVars, panelVars, loaderVars, isUploading, isProcessing, currentVideo, upload,
                   legacy, process, submissions, now>>

\* a completion probe of job j returned a success status
ProbeOk(j) ==
    /\ Job(j).probes > 0
    /\ jobs' = [jobs EXCEPT ![j] = [@ EXCEPT !.probes = @ - 1,
                                             !.interval = FALSE,
                                             !.completed = @ + 1]]
    /\ dom' = [dom EXCEPT !.bar = Pct(100),
                          !.statusText = "Processing completed successfully!",
                          !.processedVideo = IF Has("processedVideo") THEN Job(j).file ELSE @]
    /\ notes' = showNotification(notes, "success", "Video processed successfully!", "")
    /\ UNCHANGED <<page, player, tests, previewVars, panelVars, loaderVars, isUploading, isProcessing, currentVideo, upload,
                   legacy, process, submissions, now>>

ProbeNotReadyStops(j) ==
    /\ Job(j).probes > 0
    /\ jobs' = [jobs EXCEPT ![j] = [@ EXCEPT !.probes = @ - 1,
                                             !.interval = FALSE,
                                             !.lastProgress = Job(j).progress]]
    /\ dom' = IF Abs(Job(j).progress - Job(j).lastProgress) < Pct(1)
              THEN [dom EXCEPT !.statusText = "Processing in progress... Please wait"]
              ELSE dom
    /\ UNCHANGED <<page, player, tests, previewVars, panelVars, notes, loaderVars, isUploading, isProcessing, currentVideo,
                   upload, legacy, process, submissions, now>>

\* a completion probe of job j returned an error status or threw
ProbeNotReady(j) ==
    /\ Job(j).probes > 0
    /\ jobs' = [jobs EXCEPT ![j] = [@ EXCEPT !.probes = @ - 1,
                                             !.lastProgress = Job(j).progress]]
    /\ dom' = IF Abs(Job(j).progress - Job(j).lastProgress) < Pct(1)
              THEN [dom EXCEPT !.statusText = "Processing in progress... Please wait"]
              ELSE dom
    /\ UNCHANGED <<page, player, tests, previewVars, panelVars, notes, loaderVars, isUploading, isProcessing, currentVideo,
                   upload, legacy, process, submissions, now>>

PollTimeoutForces100(j) ==
    /\ Job(j).timeout
    /\ jobs' = [jobs EXCEPT ![j] = [@ EXCEPT !.timeout = FALSE,
                                             !.interval = FALSE,
                                             !.progress = Pct(100),
                                             !.timedOut = TRUE]]
    /\ dom' = [dom EXCEPT !.bar = Pct(100),
                          !.statusText = "Processing timeout - check server logs"]
    /\ notes' = showNotification(notes, "warning",
                                 "Processing timeout - check server logs", "")
    /\ UNCHANGED <<page, player, tests, previewVars, panelVars, loaderVars, isUploading, isProcessing, currentVideo, upload,
                   legacy, process, submissions, now>>

PollTimeoutKeepsTicking(j) ==
    /\ Job(j).timeout
    /\ jobs' = [jobs EXCEPT ![j] = [@ EXCEPT !.timeout = FALSE,
                                             !.timedOut = TRUE]]
    /\ dom' = [dom EXCEPT !.statusText = "Processing timeout - check server logs"]
    /\ notes' = showNotification(notes, "warning",
                                 "Processing timeout - check server logs", "")
    /\ UNCHANGED <<page, player, tests, previewVars, panelVars, loaderVars, isUploading, isProcessing, currentVideo, upload,
                   legacy, process, submissions, now>>

\* the 10-minute timer of job j fires
PollTimeout(j) ==
    /\ Job(j).timeout
    /\ IF Job(j).progress < Pct(100)
       THEN /\ jobs' = [jobs EXCEPT ![j] = [@ EXCEPT !.timeout = FALSE,
                                                     !.interval = FALSE,
                                                     !.timedOut = TRUE]]
            /\ dom' = [dom EXCEPT !.statusText = "Processing timeout - check server logs"]
            /\ notes' = showNotification(notes, "warning",
                                         "Processing timeout - check server logs", "")
       ELSE /\ jobs' = [jobs EXCEPT ![j] = [@ EXCEPT !.timeout = FALSE,
                                                     !.interval = FALSE]]
            /\ UNCHANGED <<dom, notes>>
    /\ UNCHANGED <<page, player, tests, previewVars, panelVars, loaderVars, isUploading, isProcessing, currentVideo, upload,
                   legacy, process, submissions, now>>

\* Math.random() * 8 + 2: from 2.0 up to 10.0 (the largest draws round to
\* 10), in tenths 20..100
Increments == Pct(MinIncrement) .. Pct(MinIncrement + IncrementSpan)

\* the increments a tick can draw at the given estimate: Math.random() is
\* called only below the ceiling, at the ceiling nothing is drawn or added
Drawn(progress) == IF progress < Pct(ProgressCap) THEN Increments ELSE {0}

RECURSIVE TicksFrom(_)
\* the firings of the tick intervals of the jobs i, i+1, ...
TicksFrom(i) == IF i > Len(jobs) THEN 0 ELSE Job(i).ticks + TicksFrom(i + 1)

(***************************************************************************)
(* testProgressBar: an interval of 500 ms that writes the progress bar and *)
(* the status text in steps of 10                                          *)
(***************************************************************************)
\* testProgressBar(): the interval is armed when the progress elements exist
testProgressBar ==
    IF ~Has("progressElements")
    THEN UNCHANGED vars
    ELSE /\ Len(tests) < MaxTests
         /\ tests' = Append(tests, [progress |-> 0, armed |-> TRUE])
         /\ UNCHANGED <<page, player, previewVars, panelVars, notes, loaderVars, isUploading, isProcessing,
                        currentVideo, upload, legacy, process, submissions, jobs, dom, now>>

\* `Testing progress: ${progress}%`
TestText(progress) ==
    CASE progress = 10 -> "Testing progress: 10%"
      [] progress = 20 -> "Testing progress: 20%"
      [] progress = 30 -> "Testing progress: 30%"
      [] progress = 40 -> "Testing progress: 40%"
      [] progress = 50 -> "Testing progress: 50%"
      [] progress = 60 -> "Testing progress: 60%"
      [] progress = 70 -> "Testing progress: 70%"
      [] progress = 80 -> "Testing progress: 80%"
      [] progress = 90 -> "Testing progress: 90%"
      [] OTHER -> "Testing progress: 100%"

\* the interval callback of the i-th test
TestTick(i) ==
    /\ tests[i].armed
    /\ LET p == tests[i].progress + 10 IN
       /\ tests' = [tests EXCEPT ![i] = [progress |-> p, armed |-> p < 100]]
       /\ dom' = [dom EXCEPT !.bar = Pct(p),
                             !.statusText = IF p >= 100 THEN "Test completed!"
                                            ELSE TestText(p)]
    /\ UNCHANGED <<page, player, previewVars, panelVars, notes, loaderVars, isUploading, isProcessing,
                   currentVideo, upload, legacy, process, submissions, jobs, now>>

RECURSIVE TestTicksFrom(_)
\* the firings of the intervals of the tests i, i+1, ...
TestTicksFrom(i) ==
    IF i > Len(tests) THEN 0 ELSE tests[i].progress \div 10 + TestTicksFrom(i + 1)

\* the interval of a test fires, the time of its firing not tracked
TestPollTick(i) ==
    /\ TicksFrom(1) + TestTicksFrom(1) < MaxTicks
    /\ TestTick(i)

\* the interval fires, the time of its firing not tracked
PollTick(j) ==
    /\ TicksFrom(1) + TestTicksFrom(1) < MaxTicks
    /\ \E inc \in Drawn(Job(j).progress) : Tick(j, inc)

(***************************************************************************)
(* The timers of a job against the clock                                   *)
(***************************************************************************)
\* the times at which an armed timer of a job is due
DueTimes ==
    {Job(j).tickDue : j \in {i \in DOMAIN jobs : Job(i).interval}}
    \cup {Job(j).timeoutDue : j \in {i \in DOMAIN jobs : Job(i).timeout}}

\* the clock is followed up to one tick period (800 ms) past the 10-minute
\* timer (600000 ms)
MaxClock == 600800

Earliest(S) == CHOOSE t \in S : \A u \in S : t <= u

\* time passes until the next timer is due, whatever probes are unanswered
ClockAdvance ==
    /\ DueTimes # {}
    /\ now < Earliest(DueTimes)
    /\ Earliest(DueTimes) <= MaxClock
    /\ now' = Earliest(DueTimes)
    /\ UNCHANGED <<page, player, tests, previewVars, panelVars, notes, loaderVars, isUploading, isProcessing, currentVideo,
                   upload, legacy, process, submissions, jobs, dom>>

\* the interval fires when it is due
TimedTick(j) ==
    /\ now = Job(j).tickDue
    /\ \E inc \in Drawn(Job(j).progress) : Tick(j, inc)

\* the 10-minute timer fires when it is due
TimedTimeout(j) ==
    /\ now = Job(j).timeoutDue
    /\ PollTimeout(j)

\* the probes of job j answered so far
Answered(j) == Job(j).ticks - Job(j).probes

\* a probe is answered with a success status, at any time after it was sent
TimedProbeOk(j) ==
    /\ Answered(j) < MaxAnswers
    /\ ProbeOk(j)

\* a probe is answered with an error status or throws, at any time after it
\* was sent
TimedProbeNotReady(j) ==
    /\ Answered(j) < MaxAnswers
    /\ ProbeNotReady(j)

(***************************************************************************)
(* Camera preview: previewCamera, showCameraPreviewModal and               *)
(* loadCameraSnapshot                                                      *)
(***************************************************************************)
\* previewCamera(cameraId) up to its await
previewCamera(cameraId) ==
    /\ previews < MaxPreviews
    /\ previews' = previews + 1
    /\ metadata' = [metadata EXCEPT ![cameraId] = @ + 1]
    /\ UNCHANGED <<page, player, panelVars, controlVars, notes, loaderVars, jobVars, modal, snapshots, streamErrors>>

\* showCameraPreviewModal(cameraData), cameraData.camera_id being cameraId:
\* the modal is filled for that camera, the stream load is started by the
\* assignment to src, and the handlers and the controls are bound
showCameraPreviewModal(cameraId) ==
    IF ~Has("cameraPreviewModal")
    THEN /\ notes' = showNotification(notes, "warning",
                                      "Camera preview not available on this page", "")
         /\ UNCHANGED modal
    ELSE /\ modal' = [modal EXCEPT !.camera = cameraId,
                                   !.stream = "connecting",
                                   !.statusDisplay = "flex",
                                   !.statusText = "Connecting to camera...",
                                   !.shown = TRUE]
         /\ UNCHANGED notes

\* the stream metadata of cameraId arrived with a success status
MetadataOk(cameraId) ==
    /\ metadata[cameraId] > 0
    /\ metadata' = [metadata EXCEPT ![cameraId] = @ - 1]
    /\ showCameraPreviewModal(cameraId)
    /\ UNCHANGED <<page, player, panelVars, controlVars, loaderVars, jobVars, previews, snapshots, streamErrors>>

MetadataFailedOpens(cameraId, kind, err) ==
    /\ metadata[cameraId] > 0
    /\ metadata' = [metadata EXCEPT ![cameraId] = @ - 1]
    /\ notes' = IF kind = "exception"
                THEN showNotification(notes, "error", "Error connecting to camera", "")
                ELSE showNotification(notes, "error", "Failed to get camera stream", err)
    /\ modal' = [modal EXCEPT !.camera = cameraId, !.stream = "connecting", !.shown = TRUE]
    /\ UNCHANGED <<page, player, panelVars, controlVars, loaderVars, jobVars, previews, snapshots, streamErrors>>

\* the metadata request of cameraId failed: kind "status" is an error status
\* (err: data.error, "" if absent), kind "exception" a network error
MetadataFailed(cameraId, kind, err) ==
    /\ metadata[cameraId] > 0
    /\ metadata' = [metadata EXCEPT ![cameraId] = @ - 1]
    /\ notes' = IF kind = "exception"
                THEN showNotification(notes, "error", "Error connecting to camera", "")
                ELSE showNotification(notes, "error", "Failed to get camera stream", err)
    /\ UNCHANGED <<page, player, panelVars, controlVars, loaderVars, jobVars, previews, modal, snapshots, streamErrors>>

\* videoElement.onloadstart
StreamLoadStart ==
    /\ modal.stream = "connecting"
    /\ modal' = [modal EXCEPT !.stream = "loading", !.statusText = "Loading stream..."]
    /\ UNCHANGED <<page, player, panelVars, controlVars, notes, loaderVars, jobVars, previews, metadata, snapshots,
                   streamErrors>>

\* videoElement.oncanplay
StreamCanPlay ==
    /\ modal.stream = "loading"
    /\ modal' = [modal EXCEPT !.stream = "playing", !.statusDisplay = "none"]
    /\ UNCHANGED <<page, player, panelVars, controlVars, notes, loaderVars, jobVars, previews, metadata, snapshots,
                   streamErrors>>

\* loadCameraSnapshot(cameraId) up to its await
loadCameraSnapshot(cameraId) ==
    snapshots' = [snapshots EXCEPT ![cameraId] = [sent |-> @.sent + 1,
                                                  pending |-> @.pending + 1]]

StreamErrorNoFallback ==
    /\ modal.stream \in {"connecting", "loading", "playing"}
    /\ modal' = [modal EXCEPT !.stream = "failed",
                              !.statusText = "Failed to load stream. Trying snapshot..."]
    /\ streamErrors' = [streamErrors EXCEPT ![modal.camera] = @ + 1]
    /\ UNCHANGED <<page, player, panelVars, controlVars, notes, loaderVars, jobVars, previews, metadata, snapshots>>

\* videoElement.onerror: the handler bound by the latest showCameraPreviewModal
StreamError ==
    /\ modal.stream \in {"connecting", "loading", "playing"}
    /\ modal' = [modal EXCEPT !.stream = "failed",
                              !.statusText = "Failed to load stream. Trying snapshot..."]
    /\ loadCameraSnapshot(modal.camera)
    /\ streamErrors' = [streamErrors EXCEPT ![modal.camera] = @ + 1]
    /\ UNCHANGED <<page, player, panelVars, controlVars, notes, loaderVars, jobVars, previews, metadata>>

\* the snapshot of cameraId arrived: an image is inserted before the stream
\* element, which is hidden together with the status; nothing is done on a
\* page without these elements
SnapshotOk(cameraId) ==
    /\ snapshots[cameraId].pending > 0
    /\ snapshots' = [snapshots EXCEPT ![cameraId].pending = @ - 1]
    /\ modal' = IF Has("cameraPreviewModal")
                THEN [modal EXCEPT !.images = Append(@, cameraId),
                                   !.videoDisplay = "none",
                                   !.statusDisplay = "none"]
                ELSE modal
    /\ UNCHANGED <<page, player, panelVars, controlVars, notes, loaderVars, jobVars, previews, metadata, streamErrors>>

SnapshotFailedClearsStatus(cameraId, kind) ==
    /\ snapshots[cameraId].pending > 0
    /\ snapshots' = [snapshots EXCEPT ![cameraId].pending = @ - 1]
    /\ notes' = IF kind = "exception"
                THEN showNotification(notes, "error", "Error capturing snapshot", "")
                ELSE showNotification(notes, "error", "Failed to capture snapshot", "")
    /\ modal' = [modal EXCEPT !.statusDisplay = "none"]
    /\ UNCHANGED <<page, player, panelVars, controlVars, loaderVars, jobVars, previews, metadata, streamErrors>>

\* the snapshot request of cameraId failed: kind "status" is an error status,
\* kind "exception" a network error
SnapshotFailed(cameraId, kind) ==
    /\ snapshots[cameraId].pending > 0
    /\ snapshots' = [snapshots EXCEPT ![cameraId].pending = @ - 1]
    /\ notes' = IF kind = "exception"
                THEN showNotification(notes, "error", "Error capturing snapshot", "")
                ELSE showNotification(notes, "error", "Failed to capture snapshot", "")
    /\ UNCHANGED <<page, player, panelVars, controlVars, loaderVars, jobVars, previews, metadata, modal, streamErrors>>

(***************************************************************************)
(* The controls of the modal (bindCameraControls), captureSnapshot and     *)
(* toggleRecording                                                         *)
(***************************************************************************)
\* click on #refreshStream, bound by the latest showCameraPreviewModal: the
\* assignment of src to itself starts the load of the stream again
refreshStream ==
    /\ modal.camera # NoCamera
    /\ clicks < MaxControls
    /\ clicks' = clicks + 1
    /\ modal' = [modal EXCEPT !.stream = "connecting"]
    /\ UNCHANGED <<page, player, panelVars, notes, loaderVars, jobVars, previews, metadata, snapshots,
                   streamErrors, captures, recording>>

\* captureSnapshot(cameraId) up to its await: the button of the modal or of
\* an entry of the preview panel
captureSnapshot(cameraId) ==
    /\ clicks < MaxControls
    /\ clicks' = clicks + 1
    /\ captures' = [captures EXCEPT ![cameraId] = @ + 1]
    /\ UNCHANGED <<page, player, panelVars, notes, loaderVars, jobVars, previews, metadata, modal,
                   snapshots, streamErrors, recording>>

\* the request of captureSnapshot was answered with a success status: the
\* image is downloaded
CaptureOk(cameraId) ==
    /\ captures[cameraId] > 0
    /\ captures' = [captures EXCEPT ![cameraId] = @ - 1]
    /\ notes' = showNotification(notes, "success", "Snapshot captured and downloaded!", "")
    /\ UNCHANGED <<page, player, panelVars, loaderVars, jobVars, previews, metadata, modal,
                   snapshots, streamErrors, recording, clicks>>

\* the request of captureSnapshot failed: an error status or an exception
CaptureFailed(cameraId, kind) ==
    /\ captures[cameraId] > 0
    /\ captures' = [captures EXCEPT ![cameraId] = @ - 1]
    /\ notes' = IF kind = "exception"
                THEN showNotification(notes, "error", "Error capturing snapshot", "")
                ELSE showNotification(notes, "error", "Failed to capture snapshot", "")
    /\ UNCHANGED <<page, player, panelVars, loaderVars, jobVars, previews, metadata, modal,
                   snapshots, streamErrors, recording, clicks>>

\* toggleRecording(cameraId): the button of the modal changes its label and
\* its state is announced (without the button the call throws)
toggleRecording ==
    /\ Has("cameraPreviewModal")
    /\ clicks < MaxControls
    /\ clicks' = clicks + 1
    /\ notes' = IF recording
                THEN showNotification(notes, "info", "Recording stopped", "")
                ELSE showNotification(notes, "success", "Recording started", "")
    /\ recording' = ~recording
    /\ UNCHANGED <<page, player, panelVars, loaderVars, jobVars, previews, metadata, modal,
                   snapshots, streamErrors, captures>>

(***************************************************************************)
(* The keydown listener of the document: Escape hides the open modal       *)
(***************************************************************************)
Keys == {"Escape", "Enter"}

\* the modals that are open (.modal.show)
OpenModals ==
    (IF modal.shown THEN {"cameraPreviewModal"} ELSE {})
    \cup (IF player.shown THEN {"videoModal"} ELSE {})

\* keydown on the document: on Escape the first open modal of the page, if
\* there is one, is hidden (which of two open modals comes first is decided by
\* the markup of the page); hidden.bs.modal follows later
keydown(key) ==
    IF key # "Escape" \/ OpenModals = {}
    THEN UNCHANGED vars
    ELSE /\ \E openModal \in OpenModals :
               /\ modal' = IF openModal = "cameraPreviewModal"
                           THEN [modal EXCEPT !.shown = FALSE] ELSE modal
               /\ player' = IF openModal = "videoModal"
                            THEN [player EXCEPT !.shown = FALSE] ELSE player
         /\ UNCHANGED <<page, notes, loaderVars, jobVars, panelVars, controlVars, previews,
                        metadata, snapshots, streamErrors>>

(***************************************************************************)
(* The preview panel: updateCameraPreviews                                 *)
(***************************************************************************)
\* the outcomes of a snapshot request of the panel: a success status, an
\* error status, an exception
Outcomes == {"ok", "status", "exception"}

NoPreview == [camera |-> NoCamera, snapshot |-> "null", status |-> "pending"]

PreviewOfAlwaysOnline(camera, outcome) ==
    [camera |-> camera,
     snapshot |-> IF outcome = "ok" THEN camera ELSE "null",
     status |-> "online"]

\* the object the mapped function returns for a camera: the object URL of the
\* snapshot (named by its camera) and the tag
PreviewOf(camera, outcome) ==
    [camera |-> camera,
     snapshot |-> IF outcome = "ok" THEN camera ELSE "null",
     status |-> IF outcome = "ok" THEN "online" ELSE "offline"]

\* updateCameraPreviews() up to its await: one snapshot request per camera of
\* this.cameras, the panel showing the loading state
updateCameraPreviews ==
    IF Len(cameras) = 0 \/ ~Has("cameraPreview")
    THEN UNCHANGED vars
    ELSE /\ Len(cycles) < MaxCycles
         /\ cycles' = Append(cycles,
                             [cameras |-> cameras,
                              outcomes |-> [i \in DOMAIN cameras |-> "pending"],
                              previews |-> [i \in DOMAIN cameras |-> NoPreview],
                              done |-> FALSE])
         /\ panel' = [content |-> "loading", entries |-> <<>>]
         /\ UNCHANGED <<page, player, notes, loaderVars, jobVars, previewVars>>

\* the snapshot request of the i-th camera of cycle k got its response; when
\* it is the last one of its cycle, Promise.all resolves and the grid is
\* rendered
PanelSnapshot(k, i, outcome) ==
    /\ cycles[k].outcomes[i] = "pending"
    /\ LET results == [cycles[k].previews EXCEPT
                          ![i] = PreviewOf(cycles[k].cameras[i], outcome)]
           last == \A n \in DOMAIN cycles[k].cameras :
                      n # i => cycles[k].outcomes[n] # "pending"
       IN  /\ cycles' = [cycles EXCEPT ![k] = [@ EXCEPT !.outcomes[i] = outcome,
                                                        !.previews = results,
                                                        !.done = last]]
           /\ panel' = IF last
                       THEN [content |-> "grid", entries |-> results]
                       ELSE panel
    /\ UNCHANGED <<page, player, notes, loaderVars, jobVars, previewVars>>

(***************************************************************************)
(* The state after construction: constructor() and init()                  *)
(***************************************************************************)
\* the preview modal as the page delivers it: nothing requested, no inline
\* styles, no image
InitPreview ==
    /\ previews = 0
    /\ metadata = [c \in Cameras |-> 0]
    /\ modal = [camera |-> NoCamera, stream |-> "idle", statusDisplay |-> "",
                statusText |-> "", videoDisplay |-> "", images |-> <<>>,
                shown |-> FALSE]
    /\ snapshots = [c \in Cameras |-> [sent |-> 0, pending |-> 0]]
    /\ streamErrors = [c \in Cameras |-> 0]
    /\ captures = [c \in Cameras |-> 0]
    /\ recording = FALSE
    /\ clicks = 0
    /\ cameras = <<>>
    /\ cycles = <<>>
    /\ panel = [content |-> "initial", entries |-> <<>>]

\* the list fetches init() sends on the page pg: one per loader that gets
\* past its checks
InitialFetches(pg) ==
    [r \in Resources |->
        IF r = "videos"
        THEN (IF "videosGrid" \in pg.elements THEN 1 ELSE 0)
        ELSE (IF pg.pathname # "/library" THEN 1 ELSE 0)]

\* the page after the constructor ran: init() has called the three loaders
InitApp ==
    /\ page \in Pages
    /\ retryCount = 0
    /\ inflight = InitialFetches(page)
    /\ timers = EmptyBag
    /\ notes = EmptyBag
    /\ events = 0
    /\ manage = [k \in ManageKinds |-> 0]
    /\ isUploading = FALSE
    /\ isProcessing = FALSE
    /\ currentVideo = NoVideo
    /\ upload = "idle"
    /\ legacy = [sent |-> 0, pending |-> 0]
    /\ process = "idle"
    /\ submissions = [sent |-> 0, pending |-> 0]
    /\ jobs = <<>>
    /\ dom = [bar |-> 0, statusText |-> "", processedVideo |-> "",
              uploadBtnDisabled |-> FALSE, processBtnDisabled |-> FALSE]
    /\ now = 0
    /\ tests = <<>>
    /\ player = [src |-> NoSource, shown |-> FALSE, listeners |-> <<>>, plays |-> 0]
    /\ InitPreview

\* with the observer following every resource
Init ==
    /\ InitApp
    /\ hist = [r \in Resources |-> [fails |-> 0, noted |-> FALSE, retries |-> 0]]

\* with the observer following none
InitUnobserved ==
    /\ InitApp
    /\ hist = <<>>

NextLoad ==
    \/ \E r \in Resources : FetchOk(r)
    \/ \E r \in Resources : FetchFail(r)
    \/ \E t \in BagToSet(timers) : RetryFire(t)
    \/ AutoRefresh
    \/ Online
    \/ Offline
    \/ WindowError
    \/ addCamera
    \/ \E c \in Cameras : deleteCamera(c)
    \/ \E v \in VideoNames : deleteUploadedVideo(v)
    \/ \E kind \in ManageKinds : ManageOk(kind)
    \/ \E kind \in ManageKinds, how \in FailureKinds : ManageFailed(kind, how)

\* the list loaders and their retries, the refresh timer, the window events
\* and the management operations
SpecLoad == Init /\ [][NextLoad]_vars

\* the same behaviours, the history of the fetches not recorded
SpecLoadUnobserved == InitUnobserved /\ [][NextLoad]_vars

Files == {NoFile} \cup FileTypes

BackendErrors == {"", "unsupported codec"}

NextUpload ==
    \/ \E file \in Files : handleVideoUpload(file)
    \/ UploadError
    \/ \E err \in BackendErrors : UploadRejected(err)
    \/ \E info \in VideoNames \cup {NoVideo} : UploadSuccess(info)
    \/ \E ok \in BOOLEAN : UploadReloaded(ok)
    \/ \E file \in Files : uploadVideo(file)
    \/ \E data \in VideoNames : LegacyUploaded(data)
    \/ \E err \in BackendErrors : LegacyFailed(err)

\* the two submit listeners of the upload form
SpecUpload == Init /\ [][NextUpload]_vars

\* the states in which the upload phase is over: no descriptor, or the
\* descriptor stored by showVideoInfo for the one upload that was sent
InitUploaded ==
    /\ page \in Pages
    /\ retryCount = 0
    /\ inflight = InitialFetches(page)
    /\ timers = EmptyBag
    /\ hist = [r \in Resources |-> [fails |-> 0, noted |-> FALSE, retries |-> 0]]
    /\ events = 0
    /\ manage = [k \in ManageKinds |-> 0]
    /\ isUploading = FALSE
    /\ isProcessing = FALSE
    /\ \/ /\ currentVideo = NoVideo
          /\ legacy = [sent |-> 0, pending |-> 0]
          /\ notes = EmptyBag
       \/ /\ currentVideo \in VideoNames
          /\ legacy = [sent |-> 1, pending |-> 0]
          /\ notes = SetToBag({Note("success", "Video uploaded successfully!", "")})
    /\ upload = "idle"
    /\ process = "idle"
    /\ submissions = [sent |-> 0, pending |-> 0]
    /\ jobs = <<>>
    /\ dom = [bar |-> 0, statusText |-> "", processedVideo |-> "",
              uploadBtnDisabled |-> FALSE, processBtnDisabled |-> FALSE]
    /\ now = 0
    /\ tests = <<>>
    /\ player = [src |-> NoSource, shown |-> FALSE, listeners |-> <<>>, plays |-> 0]
    /\ InitPreview

NextJob ==
    \/ processVideo
    \/ \E f \in ProcessedNames : ProcessAccepted(f)
    \/ \E err \in BackendErrors : ProcessFailed(err)
    \/ \E j \in DOMAIN jobs : PollTick(j)
    \/ \E j \in DOMAIN jobs : ProbeOk(j)
    \/ \E j \in DOMAIN jobs : ProbeNotReady(j)
    \/ \E j \in DOMAIN jobs : PollTimeout(j)
    \/ testProgressBar
    \/ \E i \in DOMAIN tests : TestPollTick(i)

\* submissions after the upload phase and their pollers, the timers firing
\* in any order
SpecJob == InitUploaded /\ [][NextJob]_vars

\* the pages on which processVideo gets past its checks and a job is polled
PollingPages ==
    {pg \in Pages : {"enableDepersonalization", "progressElements"} \subseteq pg.elements}

\* the state in which the first job has just been handed to the poller
InitStarted ==
    /\ page \in PollingPages
    /\ retryCount = 0
    /\ inflight = InitialFetches(page)
    /\ timers = EmptyBag
    /\ notes = SetToBag({Note("success", "Video uploaded successfully!", "")})
    /\ hist = [r \in Resources |-> [fails |-> 0, noted |-> FALSE, retries |-> 0]]
    /\ events = 0
    /\ manage = [k \in ManageKinds |-> 0]
    /\ isUploading = FALSE
    /\ isProcessing = FALSE
    /\ currentVideo \in VideoNames
    /\ upload = "idle"
    /\ legacy = [sent |-> 1, pending |-> 0]
    /\ process = "idle"
    /\ submissions = [sent |-> 1, pending |-> 0]
    /\ now = 0
    /\ tests = <<>>
    /\ player = [src |-> NoSource, shown |-> FALSE, listeners |-> <<>>, plays |-> 0]
    /\ InitPreview
    /\ \E f \in ProcessedNames : jobs = <<startProgressPolling(f)>>
    /\ dom = [bar |-> 0, statusText |-> "Starting video processing...",
              processedVideo |-> "", uploadBtnDisabled |-> FALSE,
              processBtnDisabled |-> FALSE]

\* the interval has fired PolledTicks times
PolledTicks == 9

\* the state on the page pg in which the first job has been polled for
\* PolledTicks tick periods, every tick having drawn the increment inc and
\* every probe having been answered "not ready" before the next firing
Polled(pg, inc) ==
    /\ page = pg
    /\ retryCount = 0
    /\ inflight = InitialFetches(pg)
    /\ timers = EmptyBag
    /\ notes = SetToBag({Note("success", "Video uploaded successfully!", "")})
    /\ hist = [r \in Resources |-> [fails |-> 0, noted |-> FALSE, retries |-> 0]]
    /\ events = 0
    /\ manage = [k \in ManageKinds |-> 0]
    /\ isUploading = FALSE
    /\ isProcessing = FALSE
    /\ currentVideo = "a.mp4"
    /\ upload = "idle"
    /\ legacy = [sent |-> 1, pending |-> 0]
    /\ process = "idle"
    /\ submissions = [sent |-> 1, pending |-> 0]
    /\ now = PolledTicks * PollIntervalMs
    /\ tests = <<>>
    /\ player = [src |-> NoSource, shown |-> FALSE, listeners |-> <<>>, plays |-> 0]
    /\ InitPreview
    /\ jobs = <<[file |-> "processed_a.mp4",
                 progress |-> PolledTicks * inc, lastProgress |-> PolledTicks * inc,
                 interval |-> TRUE, tickDue |-> (PolledTicks + 1) * PollIntervalMs,
                 timeout |-> TRUE, timeoutDue |-> PollTimeoutMs,
                 ticks |-> PolledTicks, probes |-> 0, completed |-> 0,
                 timedOut |-> FALSE]>>
    /\ dom = [bar |-> PolledTicks * inc,
              statusText |-> StatusOf(PolledTicks * inc, ""),
              processedVideo |-> "", uploadBtnDisabled |-> FALSE,
              processBtnDisabled |-> FALSE]

\* the estimate of the job in InitTimed: nine increments of 8.8, so that the
\* next tick can add any increment without reaching the ceiling
PolledEstimate == PolledTicks * 88

\* the job after nine increments of 8.8 (estimate 79.2), on either page that
\* polls
InitTimed == \E pg \in PollingPages : Polled(pg, 88)

\* the job after nine increments of 9.9 (estimate 89.1), its next tick
\* reaching the ceiling
InitCeiling == \E pg \in PollingPages : Polled(pg, 99)

NextTimed ==
    \/ ClockAdvance
    \/ \E j \in DOMAIN jobs : TimedTick(j)
    \/ \E j \in DOMAIN jobs : TimedProbeOk(j)
    \/ \E j \in DOMAIN jobs : TimedProbeNotReady(j)
    \/ \E j \in DOMAIN jobs : TimedTimeout(j)

\* one job polled against the clock, from its tenth tick period on: the
\* timers fire when they are due, and a probe is answered at any time or
\* never
SpecTimed == InitTimed /\ [][NextTimed]_vars

\* the same job from its start
SpecStarted == InitStarted /\ [][NextTimed]_vars

\* a job about to reach the ceiling, with the scheduling of the timers: time
\* passes and a timer that is due runs. Nothing is assumed about the probes:
\* a fetch may be answered at any time or stay unanswered for ever
SpecTimedFair ==
    /\ InitCeiling
    /\ [][NextTimed]_vars
    /\ WF_vars(ClockAdvance)
    /\ WF_vars(\E j \in DOMAIN jobs : TimedTick(j))
    /\ WF_vars(\E j \in DOMAIN jobs : TimedTimeout(j))

NextPreview ==
    \/ \E c \in Cameras : previewCamera(c)
    \/ \E c \in Cameras : MetadataOk(c)
    \/ \E c \in Cameras, kind \in FailureKinds, err \in BackendErrors :
          MetadataFailed(c, kind, err)
    \/ StreamLoadStart
    \/ StreamCanPlay
    \/ StreamError
    \/ \E c \in Cameras : SnapshotOk(c)
    \/ \E c \in Cameras, kind \in FailureKinds : SnapshotFailed(c, kind)
    \/ refreshStream
    \/ \E c \in Cameras : captureSnapshot(c)
    \/ \E c \in Cameras : CaptureOk(c)
    \/ \E c \in Cameras, kind \in FailureKinds : CaptureFailed(c, kind)
    \/ toggleRecording
    \/ \E key \in Keys : keydown(key)

\* the preview modal: metadata requests, stream events, snapshot fallback,
\* the controls and the Escape key
SpecPreview == Init /\ [][NextPreview]_vars

NextGuards ==
    \/ \E file \in Files : handleVideoUpload(file)
    \/ UploadError
    \/ \E err \in BackendErrors : UploadRejected(err)
    \/ \E info \in VideoNames \cup {NoVideo} : UploadSuccess(info)
    \/ \E ok \in BOOLEAN : UploadReloaded(ok)
    \/ processVideo
    \/ \E f \in ProcessedNames : ProcessAccepted(f)
    \/ \E err \in BackendErrors : ProcessFailed(err)

\* the two guarded operations side by side after uploadVideo had its turn:
\* handleVideoUpload and processVideo with their responses, the pollers of
\* the accepted jobs left alone
SpecGuards == InitUploaded /\ [][NextGuards]_vars

NextPanel ==
    \/ FetchOk("cameras")
    \/ AutoRefresh
    \/ updateCameraPreviews
    \/ \E k \in DOMAIN cycles :
          \E i \in DOMAIN cycles[k].cameras, outcome \in Outcomes :
             PanelSnapshot(k, i, outcome)

\* the preview panel: the camera list being loaded and reloaded, and the
\* cycles started by the 2-second timer of init() and the 10-second interval
SpecPanel == Init /\ [][NextPanel]_vars

NextPlayer ==
    \/ \E f \in VideoNames : playVideo(f)
    \/ \E f \in VideoNames : playUploadedVideo(f)
    \/ \E f \in ProcessedNames : playProcessedVideo(f)
    \/ PlayerError
    \/ PlayerHidden
    \/ \E key \in Keys : keydown(key)

\* the video player and its modal
SpecPlayer == Init /\ [][NextPlayer]_vars

Next ==
    NextLoad \/ NextUpload \/ NextJob \/ NextTimed \/ NextPreview \/ NextGuards
    \/ NextPanel \/ NextPlayer

Spec == Init /\ [][Next]_vars

(***************************************************************************)
(* Reachability of the initial states of SpecJob and SpecTimed             *)
(***************************************************************************)
\* violated under SpecUpload: the upload phase reaches InitUploaded
UploadedUnreachable == ~(InitUploaded /\ currentVideo # NoVideo)

\* violated under SpecJob: the first accepted submission reaches InitStarted
StartedUnreachable == ~InitStarted

\* violated under SpecStarted: the job reaches InitTimed
TimedUnreachable == ~InitTimed

\* violated under SpecStarted: the job reaches InitCeiling
CeilingUnreachable == ~InitCeiling

(***************************************************************************)
(* Claims                                                                  *)
(***************************************************************************)
Polling == {j \in DOMAIN jobs : Job(j).interval}

\* C1: at most one processing job is active at any time: never two jobs being
\* polled, and no submission in flight while a job is being polled
OneActiveJob ==
    /\ Cardinality(Polling) <= 1
    /\ process = "awaitSubmit" => Polling = {}

\* C2: a job never shows both the completion effects and the timeout warning
OneTerminalOutcome ==
    \A j \in DOMAIN jobs : ~(Job(j).completed > 0 /\ Job(j).timedOut)

\* C3: once handleVideoUpload or processVideo has ended, by whatever path,
\* its guard flag is false
GuardsReleased ==
    /\ upload = "idle" => ~isUploading
    /\ process = "idle" => ~isProcessing

\* C4: handleVideoUpload with a file of a type outside the allowed list, no
\* upload being in flight, leaves isUploading and currentVideo as they were
RejectedTypeChangesNothing ==
    [][\A file \in FileTypes \ allowedTypes :
          (~isUploading /\ handleVideoUpload(file))
             => (isUploading' = isUploading /\ currentVideo' = currentVideo)]_vars

\* C5: while a job is being polled neither its estimate nor the value on the
\* progress bar decreases, the estimate never is 100, and the bar shows 100
\* only after a probe succeeded
ProgressMonotone ==
    /\ [](/\ \A j \in DOMAIN jobs : Job(j).progress < Pct(100)
          /\ dom.bar = Pct(100) => \E j \in DOMAIN jobs : Job(j).completed > 0)
    /\ [][\A j \in DOMAIN jobs :
             Job(j).interval => /\ jobs'[j].progress >= Job(j).progress
                                /\ dom'.bar >= dom.bar]_vars

TimeoutNote == Note("warning", "Processing timeout - check server logs", "")

\* C6: a job none of whose probes succeeded is timed out exactly when 600000 ms
\* have elapsed since its start: before that its tick is armed and nothing is
\* reported; at the ceiling the tick is stopped, the timeout status and the
\* warning are shown, and the estimate and the bar stay where they were,
\* below 100
TimeoutAtCeiling ==
    /\ [](\A j \in DOMAIN jobs :
            Job(j).completed = 0 =>
              /\ now < 600000 => (Job(j).interval /\ ~Job(j).timedOut
                                  /\ CopiesIn(TimeoutNote, notes) = 0)
              /\ Job(j).timedOut => /\ now = 600000
                                    /\ ~Job(j).interval
                                    /\ Job(j).progress < Pct(100)
                                    /\ dom.bar < Pct(100)
                                    /\ CopiesIn(TimeoutNote, notes) = 1
              /\ (now = 600000 /\ ~Job(j).timeout) => Job(j).timedOut)
    /\ [][\A j \in DOMAIN jobs :
             (Job(j).completed = 0 /\ ~Job(j).timedOut /\ jobs'[j].timedOut)
                => /\ dom'.statusText = "Processing timeout - check server logs"
                   /\ jobs'[j].progress = Job(j).progress
                   /\ dom'.bar = dom.bar]_vars

TimedOutBelow100 ==
    \E j \in DOMAIN jobs :
        /\ Job(j).timedOut
        /\ Job(j).completed = 0
        /\ Job(j).ticks > 700
        /\ Job(j).progress = Pct(90)
        /\ now = 600000

\* C7: retryCount stays between 0 and maxRetries (3) in every reachable state
RetryCountInRange == retryCount \in 0..3

\* three failures were counted, their retries are on the way and nothing was
\* reported
RetryCountAtMax ==
    /\ retryCount = 3
    /\ timers = EmptyBag
    /\ notes = EmptyBag
    /\ \E r \in Resources : inflight[r] > 0

\* C8: a key whose fetches keep failing gets exactly maxRetries (3) retries
\* after its first attempt; its next failure is reported once as final and the
\* counter is reset
ThreeRetriesThenFinal ==
    [][\A r \in Resources :
          FetchFail(r) =>
             IF hist[r].retries < 3
             THEN /\ notes' = notes
                  /\ BagCardinality(timers') = BagCardinality(timers) + 1
             ELSE /\ notes' = notes (+) SetToBag({FinalFailure(r)})
                  /\ timers' = timers
                  /\ retryCount' = 0]_vars

\* C9: a successful fetch of a resource that follows fewer than maxRetries
\* consecutive failures of it leaves the counter at zero, no final failure of
\* that resource having been reported
QuietRetryThenReset ==
    [][\A r \in Resources :
          (FetchOk(r) /\ hist[r].fails >= 1 /\ hist[r].fails < 3)
             => (retryCount' = 0 /\ ~hist[r].noted)]_vars

\* C10: the attempt count consulted when a fetch of a resource fails is that
\* resource's own (the retries scheduled for it since its last success or
\* final failure), whatever happened to the other resources
RetryStatePerKey ==
    [][\A r \in Resources : FetchFail(r) => retryCount = hist[r].retries]_vars

\* the POST /api/upload-video requests in flight: the one of handleVideoUpload
\* and those of uploadVideo
UploadPosts == (IF upload = "awaitUpload" THEN 1 ELSE 0) + legacy.pending

\* C11: at most one POST /api/upload-video is in flight at any time, whatever
\* the submit listeners of the upload form were given
OneUploadInFlight == UploadPosts <= 1

\* C13: a submit with a file of an unaccepted type shows the validation
\* warning in the same step, and neither submit listener sends an upload request
UnacceptedTypeNoRequest ==
    [][\A file \in FileTypes \ allowedTypes :
          /\ (~isUploading /\ handleVideoUpload(file))
                => /\ notes' = showNotification(notes, "warning",
                                                 "Please select a valid video file", "")
                   /\ UploadPosts' = UploadPosts
          /\ uploadVideo(file) => UploadPosts' = UploadPosts]_vars

\* C12: a processVideo invocation made while a submission awaits its response
\* sends nothing: the guard flag is set for as long as the request is in
\* flight, and never more than one POST /api/process-video is in flight
OneSubmissionInFlight ==
    /\ [](/\ submissions.pending <= 1
          /\ submissions.pending = 1 <=> process = "awaitSubmit"
          /\ process = "awaitSubmit" => isProcessing)
    /\ [][(submissions.pending > 0 /\ processVideo) => submissions' = submissions]_vars

SubmissionAwaited ==
    /\ submissions.pending = 1
    /\ submissions.sent = 2
    /\ isProcessing
    /\ dom.processBtnDisabled

NoVideoNote == Note("error", "Please upload a video first", "")

\* C14: processVideo without an uploaded video shows the error notification,
\* sends no submission, starts no poller and leaves isProcessing false
NoVideoRejected ==
    /\ [](currentVideo = NoVideo => ~isProcessing)
    /\ [][(currentVideo = NoVideo /\ processVideo)
             => /\ notes' = notes (+) SetToBag({NoVideoNote})
                /\ submissions' = submissions
                /\ jobs' = jobs
                /\ process' = "idle"
                /\ ~isProcessing']_vars

NoVideoReported ==
    /\ currentVideo = NoVideo
    /\ CopiesIn(NoVideoNote, notes) > 0
    /\ ~isProcessing
    /\ submissions.sent = 0
    /\ jobs = <<>>

\* C15: a rejected submission starts no poller and ends the invocation, and
\* the error notification carries the message of the backend when there is
\* one, the generic text otherwise
BackendMessageShown ==
    [][\A err \in BackendErrors :
          ProcessFailed(err)
             => /\ jobs' = jobs
                /\ process' = "idle"
                /\ ~isProcessing'
                /\ notes' = showNotification(notes, "error",
                                IF err # "" THEN err ELSE "Processing failed", "")]_vars

\* C16: a probe that is answered with an error status or throws leaves both
\* timers of its job, its outcome, the notifications and the bar as they
\* were, and every later firing of the tick sends a probe again
NotReadyKeepsPolling ==
    [][\A j \in DOMAIN jobs :
          /\ ProbeNotReady(j)
                => /\ jobs'[j].interval = Job(j).interval
                   /\ jobs'[j].timeout = Job(j).timeout
                   /\ jobs'[j].completed = Job(j).completed
                   /\ jobs'[j].timedOut = Job(j).timedOut
                   /\ notes' = notes
                   /\ dom'.bar = dom.bar
          /\ (\E inc \in Drawn(Job(j).progress) : Tick(j, inc))
                => jobs'[j].probes = Job(j).probes + 1]_vars

\* a probe sent after the start was answered "not ready" and a later tick
\* has sent the next one
ProbedAgain ==
    \E j \in DOMAIN jobs :
        /\ Job(j).lastProgress > PolledEstimate
        /\ Job(j).ticks >= PolledTicks + 2
        /\ Job(j).probes = 1
        /\ Job(j).interval
        /\ Job(j).completed = 0

\* C17 (amended): a probe of a job that succeeds while the 10-minute timer is
\* still armed completes the job: the tick is stopped, the bar shows 100, the
\* success notification is shown, and the processed video of the page, where
\* the page has that element, points at the output file of the job; on a page
\* without the element no reference is set
SuccessCompletes ==
    [][\A j \in DOMAIN jobs :
          (ProbeOk(j) /\ Job(j).timeout)
             => /\ jobs'[j].completed = Job(j).completed + 1
                /\ ~jobs'[j].interval
                /\ dom'.bar = Pct(100)
                /\ dom'.processedVideo =
                      (IF Has("processedVideo") THEN Job(j).file ELSE dom.processedVideo)
                /\ notes' = showNotification(notes, "success",
                                             "Video processed successfully!", "")]_vars

\* C17 as stated: a probe of a job that succeeds while the 10-minute timer is
\* still armed stops the tick, shows 100 on the bar, sets the processed-video
\* reference to the output file of the job and shows the success notification
SuccessSetsReference ==
    [][\A j \in DOMAIN jobs :
          (ProbeOk(j) /\ Job(j).timeout)
             => /\ jobs'[j].completed = Job(j).completed + 1
                /\ ~jobs'[j].interval
                /\ dom'.bar = Pct(100)
                /\ dom'.processedVideo = Job(j).file
                /\ notes' = showNotification(notes, "success",
                                             "Video processed successfully!", "")]_vars

\* a probe was answered "not ready", and the next one succeeded
CompletedAfterNotReady ==
    \E j \in DOMAIN jobs :
        /\ Job(j).completed = 1
        /\ Job(j).lastProgress > PolledEstimate
        /\ Job(j).ticks >= PolledTicks + 2
        /\ Job(j).timeout
        /\ dom.bar = Pct(100)
        /\ Has("processedVideo")
        /\ dom.processedVideo = Job(j).file

\* C18: whenever no upload is running a valid file is accepted by
\* handleVideoUpload, and whenever no submission is running processVideo with
\* an uploaded video is accepted (on a page that has the processing elements)
CanRetry ==
    /\ (upload = "idle" /\ Shown("info", "Uploading video...", "") < MaxUploads)
          => ENABLED (handleVideoUpload("video/mp4") /\ upload' = "awaitUpload")
    /\ (/\ process = "idle"
        /\ currentVideo # NoVideo
        /\ submissions.sent < MaxJobs
        /\ Has("enableDepersonalization")
        /\ Has("progressElements"))
          => ENABLED (processVideo /\ process' = "awaitSubmit")

\* C19: a job that completed or timed out has neither its tick interval nor
\* its 10-minute timer armed
TerminalJobHasNoTimer ==
    \A j \in DOMAIN jobs :
        (Job(j).completed > 0 \/ Job(j).timedOut) => (~Job(j).interval /\ ~Job(j).timeout)

\* the capture-failed notifications (of loadCameraSnapshot and of
\* captureSnapshot) shown so far
CaptureFailedShown ==
    Shown("error", "Failed to capture snapshot", "")
    + Shown("error", "Error capturing snapshot", "")

\* C20: an error event of the stream of the previewed camera sends one
\* snapshot request for that camera and for no other, and shows no
\* notification; fallback requests are sent by stream errors only; a
\* capture-failed notification appears only when a snapshot request fails
\* that was sent after a stream error (or, for the capture button, by that
\* button); and a snapshot that arrives inserts an image of its camera and
\* hides the stream element and the status
StreamErrorFallsBack ==
    /\ [](\A c \in Cameras : snapshots[c].sent = streamErrors[c])
    /\ [][/\ StreamError
              => /\ snapshots' = [snapshots EXCEPT ![modal.camera] =
                                     [sent |-> @.sent + 1, pending |-> @.pending + 1]]
                 /\ modal.camera \in Cameras
                 /\ notes' = notes
          /\ CaptureFailedShown' # CaptureFailedShown
              => \E c \in Cameras, kind \in FailureKinds :
                    /\ \/ SnapshotFailed(c, kind) /\ streamErrors[c] > 0
                       \/ CaptureFailed(c, kind)
                    /\ CaptureFailedShown' = CaptureFailedShown + 1
          /\ \A c \in Cameras :
                SnapshotOk(c)
                  => /\ modal'.images = Append(modal.images, c)
                     /\ modal'.videoDisplay = "none"
                     /\ modal'.statusDisplay = "none"
                     /\ notes' = notes]_vars

SnapshotReplacedStream ==
    \E c \in Cameras :
        /\ streamErrors[c] = 1
        /\ snapshots[c] = [sent |-> 1, pending |-> 0]
        /\ modal.camera = c
        /\ modal.stream = "failed"
        /\ modal.images = <<c>>
        /\ modal.videoDisplay = "none"

\* C22: a snapshot that arrives for a camera, or the stream error of a camera,
\* changes nothing in the modal while the modal previews another camera
PreviewsIndependent ==
    [][\A c \in Cameras :
          (modal.camera # c /\ modal.camera # NoCamera)
             => /\ (SnapshotOk(c) => modal' = modal)
                /\ (streamErrors'[c] # streamErrors[c] => modal' = modal)]_vars

\* C23: at most one tick callback of a job is in progress: no tick starts
\* while the probe of an earlier tick of that job awaits its response
OneTickInProgress == \A j \in DOMAIN jobs : Job(j).probes <= 1

\* C24: a handleVideoUpload or processVideo call made while its guard flag is
\* set shows nothing, sends nothing, and leaves the flags, currentVideo, the
\* running operation and the buttons as they were
GuardedCallIsNoOp ==
    [][(\A file \in Files :
          (isUploading /\ handleVideoUpload(file))
             => /\ notes' = notes
                /\ UploadPosts' = UploadPosts
                /\ UNCHANGED <<isUploading, isProcessing, currentVideo, upload,
                               process, submissions, dom>>)
       /\ ((isProcessing /\ processVideo)
             => /\ notes' = notes
                /\ UNCHANGED <<isUploading, isProcessing, currentVideo, upload,
                               process, submissions, jobs, dom>>)]_vars

BothGuardsHeld ==
    /\ isUploading
    /\ upload = "awaitUpload"
    /\ isProcessing
    /\ process = "awaitSubmit"

\* C25: a failed list fetch either schedules a retry and shows nothing, or,
\* the counter being at maxRetries, shows the final failure of its resource
\* and schedules nothing
SilentUntilExhausted ==
    [][\A r \in Resources :
          FetchFail(r)
             => \/ /\ notes' = notes
                   /\ BagCardinality(timers') = BagCardinality(timers) + 1
                \/ /\ retryCount = 3
                   /\ notes' = notes (+) SetToBag({FinalFailure(r)})
                   /\ timers' = timers]_vars

\* the fourth failure in a row was reported, and only that
FinalFailureAfterRetries ==
    \E r \in Resources :
        /\ retryCount = 0
        /\ timers = EmptyBag
        /\ CopiesIn(FinalFailure(r), notes) = 1
        /\ BagCardinality(notes) = 1

\* C26: every firing of the 30-second timer calls the loader of each of the
\* three lists
RefreshReloadsAll ==
    [][AutoRefresh
         => \A r \in Resources : Fetches(r) => inflight'[r] = inflight[r] + 1]_vars

\* C30: the retry scheduled after a failure of a resource is delayed by
\* 1000 ms times its number among the retries of that resource: 1 s, 2 s, 3 s
RetryDelayPerKey ==
    [][\A r \in Resources :
          (FetchFail(r) /\ timers' # timers)
             => timers' = timers (+) SetToBag({[resource |-> r,
                                               delay |-> 1000 * (hist[r].retries + 1)]})]_vars

\* one notification of the given type was added to the bag
OneMoreNote(type) ==
    /\ BagCardinality(notes') = BagCardinality(notes) + 1
    /\ \E n \in BagToSet(notes') :
          n.type = type /\ CopiesIn(n, notes') = CopiesIn(n, notes) + 1

\* C27: when the request of handleVideoUpload fails (exception, error status
\* or unsuccessful result) currentVideo keeps its value, an error is notified
\* and isUploading is false; when it succeeds with a descriptor, currentVideo
\* is that descriptor; and no other response to that request changes it
DescriptorOnlyOnSuccess ==
    [][/\ (UploadError \/ \E err \in BackendErrors : UploadRejected(err))
             => /\ currentVideo' = currentVideo
                /\ OneMoreNote("error")
                /\ ~isUploading'
                /\ upload' = "idle"
       /\ \A info \in VideoNames : UploadSuccess(info) => currentVideo' = info
       /\ (upload = "awaitUpload" /\ upload' # upload /\ currentVideo' # currentVideo)
             => \E info \in VideoNames : UploadSuccess(info)]_vars

FailedUploadKeptDescriptor ==
    /\ currentVideo \in VideoNames
    /\ Shown("error", "Upload failed", "exception") = 1
    /\ ~isUploading
    /\ upload = "idle"

\* C28: whenever no handleVideoUpload invocation awaits a response the upload
\* button is enabled, and whenever no processVideo invocation awaits its
\* response the process button is enabled
ButtonsRestored ==
    /\ upload = "idle" => ~dom.uploadBtnDisabled
    /\ process = "idle" => ~dom.processBtnDisabled

BothEndedInFailure ==
    /\ upload = "idle"
    /\ process = "idle"
    /\ Shown("error", "Upload failed", "exception") = 1
    /\ Shown("error", "Processing failed", "") = 1
    /\ ~dom.uploadBtnDisabled
    /\ ~dom.processBtnDisabled

\* C29: a failed metadata request shows one error notification and leaves the
\* modal, its stream and handlers, and the snapshot requests as they were
FailedMetadataLeavesModal ==
    [][\A c \in Cameras, kind \in FailureKinds, err \in BackendErrors :
          MetadataFailed(c, kind, err)
             => /\ OneMoreNote("error")
                /\ modal' = modal
                /\ snapshots' = snapshots
                /\ streamErrors' = streamErrors]_vars

MetadataFailureReported ==
    /\ Shown("error", "Error connecting to camera", "") = 1
    /\ previews = 1
    /\ \A c \in Cameras : metadata[c] = 0
    /\ modal.camera = NoCamera
    /\ modal.stream = "idle"

\* C21: a cycle is complete exactly when all its requests are answered, and
\* the step that completes it renders one entry per camera of the list the
\* cycle started with, in that order, tagged online where the snapshot
\* request of that camera succeeded and offline where it failed
CycleRendersEveryCamera ==
    /\ [](\A k \in DOMAIN cycles :
            cycles[k].done <=> \A i \in DOMAIN cycles[k].cameras :
                                  cycles[k].outcomes[i] # "pending")
    /\ [][\A k \in DOMAIN cycles :
             (~cycles[k].done /\ cycles'[k].done)
                => /\ panel'.content = "grid"
                   /\ Len(panel'.entries) = Len(cycles[k].cameras)
                   /\ \A i \in DOMAIN cycles[k].cameras :
                         /\ panel'.entries[i].camera = cycles[k].cameras[i]
                         /\ panel'.entries[i].status =
                               (IF cycles'[k].outcomes[i] = "ok"
                                THEN "online" ELSE "offline")]_vars

MixedCycleRendered ==
    \E k \in DOMAIN cycles :
        /\ cycles[k].done
        /\ cycles[k].cameras = <<"cam1", "cam2">>
        /\ cycles[k].outcomes = <<"exception", "ok">>
        /\ cameras = <<"cam1">>
        /\ panel.content = "grid"
        /\ panel.entries = cycles[k].previews
        /\ panel.entries[1].status = "offline"
        /\ panel.entries[2].status = "online"

\* C31: the estimate of a job never exceeds 90; a tick that finds it below 90
\* raises it by at least 2 and at most 10, clamped to 90; a tick that finds
\* it at 90 leaves it there; and every tick sends a probe
EstimatorClamped ==
    /\ [](\A j \in DOMAIN jobs : Job(j).progress \in 0..Pct(90))
    /\ [][\A j \in DOMAIN jobs :
             (\E inc \in Drawn(Job(j).progress) : Tick(j, inc))
                => /\ IF Job(j).progress < Pct(90)
                      THEN /\ jobs'[j].progress > Job(j).progress
                           /\ jobs'[j].progress >= Min(Job(j).progress + Pct(2), Pct(90))
                           /\ jobs'[j].progress <= Min(Job(j).progress + Pct(10), Pct(90))
                      ELSE jobs'[j].progress = Pct(90)
                   /\ jobs'[j].probes = Job(j).probes + 1
                   /\ dom'.bar = jobs'[j].progress]_vars

ProbedAtCeiling ==
    \E j \in DOMAIN jobs :
        /\ Job(j).progress = Pct(90)
        /\ Job(j).lastProgress = Pct(90)
        /\ Job(j).probes > 1
        /\ Job(j).interval
        /\ Job(j).ticks > 45

\* C32: a stream error sends exactly one snapshot request; a snapshot that
\* arrives shows its image, hides the stream element and the status and
\* notifies nothing; a snapshot request that fails shows one error
\* notification and leaves the modal as it was
FallbackOutcomes ==
    [][/\ StreamError
          => \A c \in Cameras :
                snapshots'[c].sent =
                   snapshots[c].sent + (IF c = modal.camera THEN 1 ELSE 0)
       /\ \A c \in Cameras :
             /\ SnapshotOk(c)
                  => /\ Len(modal'.images) = Len(modal.images) + 1
                     /\ modal'.images[Len(modal'.images)] = c
                     /\ modal'.videoDisplay = "none"
                     /\ modal'.statusDisplay = "none"
                     /\ notes' = notes
                     /\ snapshots'[c].sent = snapshots[c].sent
             /\ (\E kind \in FailureKinds : SnapshotFailed(c, kind))
                  => /\ OneMoreNote("error")
                     /\ CaptureFailedShown' = CaptureFailedShown + 1
                     /\ modal' = modal
                     /\ snapshots'[c].sent = snapshots[c].sent]_vars

FallbackFailed ==
    /\ CaptureFailedShown = 1
    /\ modal.stream = "failed"
    /\ modal.statusDisplay = "flex"
    /\ modal.statusText = "Failed to load stream. Trying snapshot..."
    /\ modal.videoDisplay = ""
    /\ modal.images = <<>>
    /\ \A c \in Cameras : snapshots[c].pending = 0

\* C33: the completion effects of a job (success notification, processed
\* video set) happen at most once
CompletedOnce == \A j \in DOMAIN jobs : Job(j).completed <= 1

\* C34: no resource gets more than maxRetries (3) retries scheduled without a
\* success of it or a final failure in between
\* (stated for the runs in which no final failure has been notified for any
\* resource, so that only a success of the resource itself could have
\* restarted its count)
RetriesPerKeyBounded ==
    (\A q \in Resources : CopiesIn(FinalFailure(q), notes) = 0)
       => \A r \in Resources : hist[r].retries <= 3

\* C35: the 10-minute timer of a job changes neither the status text nor the
\* notifications when a job started after it is being polled or has completed
TimeoutTouchesOwnJob ==
    [][\A j \in DOMAIN jobs :
          (/\ PollTimeout(j)
           /\ \E k \in DOMAIN jobs :
                 k > j /\ (Job(k).interval \/ Job(k).completed > 0))
             => (dom'.statusText = dom.statusText /\ notes' = notes)]_vars

\* C36: once every cycle has finished, the panel shows the entries of the
\* cycle that started last
LatestCycleShown ==
    (cycles # <<>> /\ \A k \in DOMAIN cycles : cycles[k].done)
       => panel.entries = cycles[Len(cycles)].previews

\* C37: every job whose interval is armed eventually has it cleared
PollerStops ==
    \A j \in 1..MaxJobs :
        (j \in DOMAIN jobs /\ jobs[j].interval)
           ~> (j \in DOMAIN jobs /\ ~jobs[j].interval)

StoppedByTimeout ==
    \E j \in DOMAIN jobs :
        /\ ~Job(j).interval
        /\ ~Job(j).timeout
        /\ Job(j).timedOut
        /\ Job(j).completed = 0
        /\ Job(j).probes > 700
        /\ Job(j).ticks >= 749

\* C38: the modal never holds more than one snapshot image, and while a
\* stream is being loaded or played the stream element is not hidden
OneImageStreamVisible ==
    /\ Len(modal.images) <= 1
    /\ modal.stream \in {"connecting", "loading", "playing"}
          => modal.videoDisplay # "none"
====
